---------------------------- MODULE Spec2Model ----------------------------
(***************************************************************************)
(* Model of the web-page-reader MCP server (src/src/index.ts) and of its   *)
(* DuckDuckGo search service (src/src/duckduckgo-search.service.ts).       *)
(*                                                                         *)
(* A request slot r runs the CallToolRequestSchema handler.  Every `await` *)
(* of the code is a suspension point, hence a value of pc[r]; what the     *)
(* code does between two awaits is one action.  The browser, the loaded    *)
(* page and the errors puppeteer raises are the environment: the actions   *)
(* take them as parameters and Next draws them from small sets.            *)
(***************************************************************************)
EXTENDS Integers, Sequences, FiniteSets, TLC

VARIABLES
    pc,         \* pc[r]: the await the handler of slot r is suspended at
    call,       \* call[r]: request.params of the request being served
    browser,    \* browser[r]: the `browser` local (index into browsers), 0 if none
    browsers,   \* every browser puppeteer.launch() has returned so far
    i,          \* i[r]: safeOperation's loop counter
    lastError,  \* lastError[r]: safeOperation's lastError
    attempts,   \* attempts[r]: outcome of every operation() call of this request
    waits,      \* waits[r]: delays (ms) handed to setTimeout by safeOperation
    gotos,      \* gotos[r]: number of page.goto calls of this request
    max,        \* max[r]: the maxResults parameter of searchService.search
    dom,        \* dom[r]: the document the page holds after page.goto
    selector,   \* selector[r]: how page.waitForSelector ended
    queried,    \* queried[r]: the container selectors page.evaluate has queried
    pending,    \* pending[r]: completion of the try block while finally runs
    response,   \* response[r]: what the handler returned
    served,     \* number of tool calls received so far
    errorResults, \* number of results flagged isError returned so far
    transport,  \* the module's `transport`: the client it was made for, 0 if null
    alive,      \* alive[c]: the SSE connection of client c is open
    conn,       \* conn[c]: where the GET /sse handler of client c stands
    latest,     \* the client of the most recent GET /sse, 0 if none
    post,       \* how the most recent POST /messages was answered
    snapshots   \* snapshots[r]: the documents whose HTML went to Readability

\* the variables of the SSE layer
sse == <<transport, alive, conn, latest, post>>

vars == <<pc, call, browser, browsers, i, lastError, attempts, waits, gotos,
          max, dom, selector, queried, pending, response, served,
          errorResults, sse, snapshots>>

-----------------------------------------------------------------------------
(* Bounds of the model *)

\* tool calls received in a behaviour
MaxRequests == 2
\* most result containers of one layout on a search page
MaxContainers == 52
\* most <a> elements on a page
MaxAnchors == 22
\* most <img> elements on a page
MaxImgs == 12

\* request slots (requests in flight at the same time)
Reqs == {1, 2}
\* the slot that serves the requests when they come one at a time
Serial == {1}

\* SSE clients
Clients == {1, 2}
\* the client when there is a single one
SingleClient == {1}

-----------------------------------------------------------------------------
(* Program constants *)

MAX_LINKS == 20
MAX_IMAGES == 10
DDG_MAX_RESULTS == 10
maxRetries == 3
SchemaMinimum == 1
SchemaMaximum == 50

-----------------------------------------------------------------------------
(* JavaScript values and library functions *)

Undefined == [t |-> "undefined"]
Num(n) == [t |-> "number", v |-> n]
Str(s) == [t |-> "string", v |-> s]

\* JavaScript truthiness, as used by `!query` and `maxResults || DDG_MAX_RESULTS`
Truthy(x) ==
    CASE x.t = "undefined" -> FALSE
      [] x.t = "number" -> x.v # 0
      [] x.t = "string" -> x.v # ""

Min(a, b) == IF a <= b THEN a ELSE b
Max(a, b) == IF a >= b THEN a ELSE b

\* Array.prototype.slice(0, end): a negative end counts from the end
Slice0(s, end) ==
    LET n == Len(s)
        e == IF end < 0 THEN Max(n + end, 0) ELSE Min(end, n)
    IN  SubSeq(s, 1, e)

\* An error message is a sequence of text fragments; String.prototype.includes
\* looks for a fragment.
Includes(msg, needle) == \E k \in 1..Len(msg) : msg[k] = needle


-----------------------------------------------------------------------------
(* Error messages *)

\* Messages puppeteer raises when the renderer goes away under an operation
TargetClosed == <<"Protocol error (Runtime.callFunctionOn): ", "Target closed">>
FrameDetached == <<"Navigating frame was detached">>
ContextDestroyed ==
    <<"Execution context was destroyed", ", most likely because of a navigation.">>
\* Other messages puppeteer raises
NavTimeout == <<"Navigation timeout of 60000 ms exceeded">>
LaunchFailed == <<"Failed to launch the browser process!">>
\* the rejection of page.waitForSelector(..., { timeout: 5000 })
SelectorTimeout ==
    <<"Waiting for selector article[data-testid=result] failed: ",
      "Waiting failed: 5000ms exceeded">>

PuppeteerErrors == {TargetClosed, FrameDetached, ContextDestroyed, NavTimeout}

\* Messages of the errors getPageMarkdown throws itself
NoResponseMsg == <<"No response received from the server">>
HttpErrorMsg(status) == <<"HTTP error: ", ToString(status)>>
ErrorPageMsg == <<"Browser error page loaded">>
NoArticleMsg == <<"Could not extract article content">>

\* IsTransient with every error classified as transient
IsTransientAlways(msg) == TRUE

\* The test of safeOperation's catch block
IsTransient(msg) ==
    \/ Includes(msg, "Navigating frame was detached")
    \/ Includes(msg, "Execution context was destroyed")
    \/ Includes(msg, "Target closed")

-----------------------------------------------------------------------------
(* Completions, responses *)

NoOutcome == [kind |-> "none"]
Ok(v) == [kind |-> "ok", value |-> v]
Err(msg) == [kind |-> "err", message |-> msg]

NoResponse == [kind |-> "none"]
\* JSON.stringify: the text that denotes the value
JSONstringify(v) == <<"json", v>>
\* return { content: [{ type: "text", text }] }   (isError absent)
ToolResult(text) == [kind |-> "result", text |-> text, isError |-> FALSE]
\* return { content: [{ type: "text", text: `Error: ${error.message}` }], isError: true }
ToolError(msg) == [kind |-> "result", text |-> <<"Error: ">> \o msg, isError |-> TRUE]
\* an error that leaves the handler
Thrown(msg) == [kind |-> "thrown", message |-> msg]

\* request.params.arguments?.key
Arg(args, key) == IF key \in DOMAIN args THEN args[key] ELSE Undefined

NoCall == [name |-> "none", arguments |-> <<>>]
NoDom == [kind |-> "none"]

-----------------------------------------------------------------------------
(* Pages *)

Iota(n) == [k \in 1..n |-> k]

\* the result containers of one layout, in page order
Containers(layout, n) == [k \in 1..n |-> [layout |-> layout, pos |-> k]]

\* The selectors the function page.evaluate runs in the search page queries
SelectorsQueried(d) ==
    IF Len(d.modern) = 0 THEN {"modern", "legacy"} ELSE {"modern"}

\* SelectItems merging the two layouts
SelectItemsMerged(d) == d.modern \o d.legacy

\* The containers that function keeps: `items` before the slice
SelectItems(d) ==
    IF "legacy" \in SelectorsQueried(d) THEN d.legacy ELSE d.modern

\* What that function returns
SearchEvaluate(d, m) ==
    LET cut == Slice0(SelectItems(d), m)
    IN  [k \in 1..Len(cut) |-> [from |-> cut[k].layout, pos |-> cut[k].pos]]

\* the lang attribute of a document element that has none
NoAttribute == [t |-> "null"]

\* document.documentElement.lang: the property reflects the attribute and is
\* the empty string when the attribute is absent
DocumentLang(d) == IF d.lang = NoAttribute THEN "" ELSE d.lang.v

\* Language without the default
LanguageAsIs(d) == DocumentLang(d)

\* document.documentElement.lang || "unknown"
Language(d) == IF Truthy(Str(DocumentLang(d))) THEN DocumentLang(d) ELSE "unknown"

\* StructuredEvaluate with the caps one too large
StructuredEvaluateOffByOne(d, maxLinks, maxImages) ==
    LET as == Slice0(d.anchors, maxLinks + 1)
        is == Slice0(d.images, maxImages + 1)
    IN  [links |-> [k \in 1..Len(as) |-> [href |-> as[k]]],
         images |-> [k \in 1..Len(is) |-> [src |-> is[k]]],
         language |-> Language(d)]

\* The function page.evaluate runs in getPageData
StructuredEvaluate(d, maxLinks, maxImages) ==
    LET as == Slice0(d.anchors, maxLinks)
        is == Slice0(d.images, maxImages)
    IN  [links |-> [k \in 1..Len(as) |-> [href |-> as[k]]],
         images |-> [k \in 1..Len(is) |-> [src |-> is[k]]],
         language |-> Language(d)]

\* TurndownService.turndown on the article contents of the model
Turndown(content) ==
    CASE content = "<h1>A</h1>" -> "# A"
      [] content = "<p>B</p>" -> "B"
      [] OTHER -> ""

NullArticle == [t |-> "null"]
Article(title, content) == [t |-> "article", title |-> title, content |-> content]

StartsWith(u, prefix) == Len(u) >= 1 /\ u[1] = prefix


-----------------------------------------------------------------------------
(* Inputs *)

ToolNames == {"read_webpage", "read_webpage_markdown", "duckduckgo_search", "other"}

Url == <<"http://", "example.com/">>
ErrorUrl == <<"chrome-error://", "chromewebdata/">>

ReadArguments == {<<>>, [url |-> Str("http://example.com/")]}

Queries == {Undefined, Str(""), Str("tla")}
MaxResultsValues == {Undefined} \cup {Num(n) : n \in {-1, 0, 1, 5, 50, 51}}
SearchArguments ==
    {<<>>}
    \cup {[maxResults |-> m] : m \in MaxResultsValues \ {Undefined}}
    \cup {[query |-> q] : q \in Queries \ {Undefined}}
    \cup [query : Queries \ {Undefined}, maxResults : MaxResultsValues \ {Undefined}]

Arguments(name) ==
    CASE name \in {"read_webpage", "read_webpage_markdown"} -> ReadArguments
      [] name = "duckduckgo_search" -> SearchArguments
      [] OTHER -> {<<>>}

StructuredPages ==
    [anchors : {Iota(n) : n \in {0, MAX_LINKS, MAX_LINKS + 1, MaxAnchors}},
     images : {Iota(n) : n \in {0, MAX_IMAGES, MaxImgs}},
     lang : {NoAttribute, Str(""), Str("en"), Str("fr")}]

SearchPages ==
    [modern : {Containers("modern", n) : n \in {0, 5, 20, MaxContainers}},
     legacy : {Containers("legacy", n) : n \in {0, 3, 12}}]

\* What page.goto resolves to in getPageMarkdown, and the URL the page is then at
Navigations ==
    [response : {"null", "response"}, status : {200, 404, 500}, url : {Url, ErrorUrl},
     readyState : {"interactive", "complete"}]

\* What Readability.parse makes of the HTML snapshot
Articles ==
    {NullArticle, Article("t", ""), Article("A", "<h1>A</h1>"), Article("B", "<p>B</p>")}

-----------------------------------------------------------------------------
(* Initial state: the server listens, no request is being served *)

Init ==
    /\ pc = [r \in Reqs |-> "idle"]
    /\ call = [r \in Reqs |-> NoCall]
    /\ browser = [r \in Reqs |-> 0]
    /\ browsers = <<>>
    /\ i = [r \in Reqs |-> 0]
    /\ lastError = [r \in Reqs |-> <<>>]
    /\ attempts = [r \in Reqs |-> <<>>]
    /\ waits = [r \in Reqs |-> <<>>]
    /\ gotos = [r \in Reqs |-> 0]
    /\ max = [r \in Reqs |-> 0]
    /\ dom = [r \in Reqs |-> NoDom]
    /\ selector = [r \in Reqs |-> "none"]
    /\ queried = [r \in Reqs |-> {}]
    /\ pending = [r \in Reqs |-> NoOutcome]
    /\ response = [r \in Reqs |-> NoResponse]
    /\ served = 0
    /\ errorResults = 0
    /\ transport = 0
    /\ alive = [c \in Clients |-> FALSE]
    /\ conn = [c \in Clients |-> "closed"]
    /\ latest = 0
    /\ post = "none"
    /\ snapshots = [r \in Reqs |-> <<>>]


-----------------------------------------------------------------------------
(* The handler between two awaits *)

Set(f, r, v) == [f EXCEPT ![r] = v]

Name(r) == call[r].name
UrlArg(r) == Arg(call[r].arguments, "url")

\* HandlerCatch rethrowing the error
HandlerCatchRethrows(msg) == Thrown(msg)

\* the handler's catch blocks
HandlerCatch(msg) == ToolError(msg)

\* MissingQuery testing for undefined only
MissingQueryUndefinedOnly(args) == Arg(args, "query") = Undefined

\* if (!query)
MissingQuery(args) == ~Truthy(Arg(args, "query"))

\* maxResults || DDG_MAX_RESULTS
EffectiveMax(args) ==
    LET m == Arg(args, "maxResults")
    IN  IF Truthy(m) THEN m.v ELSE DDG_MAX_RESULTS

\* The handler's return for the completion of getPageData, getPageMarkdown
\* or searchService.search
HandlerReturn(name, outcome) ==
    IF outcome.kind = "err" THEN HandlerCatch(outcome.message)
    ELSE IF name = "duckduckgo_search" THEN ToolResult(JSONstringify(outcome.value))
    ELSE ToolResult(outcome.value)

\* Finally with the close left to the success path: an error skips the finally
\* block and reaches the handler's catch
FinallyOnSuccessOnly(r, outcome) ==
    IF outcome.kind = "err"
    THEN /\ pc' = Set(pc, r, "done")
         /\ response' = Set(response, r, HandlerCatch(outcome.message))
         /\ UNCHANGED <<pending, browsers>>
    ELSE /\ pending' = Set(pending, r, outcome)
         /\ browsers' = [browsers EXCEPT ![browser[r]].closeCalls = @ + 1]
         /\ pc' = Set(pc, r, "close")
         /\ UNCHANGED response

\* try { ... } finally { await browser.close() }: the try block has completed
\* with `outcome`, browser.close() is called
Finally(r, outcome) ==
    /\ pending' = Set(pending, r, outcome)
    /\ browsers' = [browsers EXCEPT ![browser[r]].closeCalls = @ + 1]
    /\ pc' = Set(pc, r, "close")
    /\ UNCHANGED response

\* Delay without the linear growth
DelayConstant(k) == 1000

\* 1000 * (i + 1)
Delay(k) == 1000 * (k + 1)

\* MayRetry that lets the last attempt wait too
MayRetryAlways(k) == k < maxRetries

\* MayRetry with the budget one attempt short
MayRetryShort(k) == k < maxRetries - 2

\* i < maxRetries - 1
MayRetry(k) == k < maxRetries - 1

\* safeOperation's catch block
SafeOperationCatch(r, msg) ==
    /\ lastError' = Set(lastError, r, msg)
    /\ attempts' = Set(attempts, r, Append(attempts[r], Err(msg)))
    /\ IF IsTransient(msg) /\ MayRetry(i[r])
       THEN /\ waits' = Set(waits, r, Append(waits[r], Delay(i[r])))
            /\ pc' = Set(pc, r, "backoff")
            /\ UNCHANGED <<pending, browsers, response>>
       ELSE /\ Finally(r, Err(msg))
            /\ UNCHANGED waits

\* Throw with safeOperation around the try blocks of all three functions
ThrowRetriesAll(r, msg) == SafeOperationCatch(r, msg)

\* An error thrown inside the try block of getPageData, getPageMarkdown
\* (inside operation()) or search
Throw(r, msg) ==
    IF Name(r) = "read_webpage_markdown"
    THEN SafeOperationCatch(r, msg)
    ELSE /\ Finally(r, Err(msg))
         /\ UNCHANGED <<lastError, attempts, waits>>

\* A value returned inside the try block
Return(r, value) ==
    IF Name(r) = "read_webpage_markdown"
    THEN /\ attempts' = Set(attempts, r, Append(attempts[r], Ok(value)))
         /\ Finally(r, Ok(value))
         /\ UNCHANGED <<lastError, waits>>
    ELSE /\ Finally(r, Ok(value))
         /\ UNCHANGED <<lastError, attempts, waits>>


-----------------------------------------------------------------------------
(* Actions: one per await of the code *)

\* The CallToolRequestSchema handler is called and runs to its first await
CallTool(r, name, args) ==
    /\ pc[r] = "idle"
    /\ served < MaxRequests
    /\ served' = served + 1
    /\ call' = Set(call, r, [name |-> name, arguments |-> args])
    /\ CASE name \in {"read_webpage", "read_webpage_markdown"} ->
              /\ pc' = Set(pc, r, "launch")
              /\ UNCHANGED <<max, response>>
         [] name = "duckduckgo_search" ->
              IF MissingQuery(args)
              THEN /\ response' =
                        Set(response, r, ToolError(<<"'query' parameter is required">>))
                   /\ pc' = Set(pc, r, "done")
                   /\ UNCHANGED max
              ELSE /\ max' = Set(max, r, EffectiveMax(args))
                   /\ pc' = Set(pc, r, "launch")
                   /\ UNCHANGED response
         [] OTHER ->
              /\ response' = Set(response, r, Thrown(<<"Tool not found">>))
              /\ pc' = Set(pc, r, "done")
              /\ UNCHANGED max
    /\ UNCHANGED <<browser, browsers, i, lastError, attempts, waits, gotos, dom,
                   selector, queried, pending, errorResults>>
    /\ UNCHANGED <<transport, alive, conn, latest, snapshots>>

\* Launch with a browser kept for all calls: a call that finds the browser of
\* another call open uses it
LaunchOkShared(r) ==
    /\ pc[r] = "launch"
    /\ IF \E q \in Reqs : browser[q] # 0 /\ browsers[browser[q]].status = "open"
       THEN /\ browser' = Set(browser, r,
                   CHOOSE b \in 1..Len(browsers) :
                       \E q \in Reqs : browser[q] = b /\ browsers[b].status = "open")
            /\ UNCHANGED browsers
       ELSE /\ browsers' = Append(browsers, [owner |-> r, status |-> "open", closeCalls |-> 0])
            /\ browser' = Set(browser, r, Len(browsers) + 1)
    /\ pc' = Set(pc, r, "newPage")
    /\ UNCHANGED <<call, i, lastError, attempts, waits, gotos, max, dom, selector,
                   queried, pending, response>>
    /\ UNCHANGED <<served, errorResults, sse, snapshots>>

\* puppeteer.launch() resolves; browser.newPage() is called
LaunchOk(r) ==
    /\ pc[r] = "launch"
    /\ browsers' = Append(browsers, [owner |-> r, status |-> "open", closeCalls |-> 0])
    /\ browser' = Set(browser, r, Len(browsers) + 1)
    /\ pc' = Set(pc, r, "newPage")
    /\ UNCHANGED <<call, i, lastError, attempts, waits, gotos, max, dom, selector,
                   queried, pending, response>>
    /\ UNCHANGED <<served, errorResults, sse, snapshots>>

\* puppeteer.launch() rejects: no try block was entered, the handler catches
LaunchFail(r, msg) ==
    /\ pc[r] = "launch"
    /\ response' = Set(response, r, HandlerCatch(msg))
    /\ pc' = Set(pc, r, "done")
    /\ UNCHANGED <<call, browser, browsers, i, lastError, attempts, waits, gotos,
                   max, dom, selector, queried, pending>>
    /\ UNCHANGED <<served, errorResults, sse, snapshots>>

\* browser.newPage() resolves; search sets the user agent, the others navigate
NewPage(r) ==
    /\ pc[r] = "newPage"
    /\ IF Name(r) = "duckduckgo_search"
       THEN /\ pc' = Set(pc, r, "setUserAgent")
            /\ UNCHANGED gotos
       ELSE /\ pc' = Set(pc, r, "goto")
            /\ gotos' = Set(gotos, r, gotos[r] + 1)
    /\ UNCHANGED <<call, browser, browsers, i, lastError, attempts, waits, max, dom,
                   selector, queried, pending, response>>
    /\ UNCHANGED <<served, errorResults, sse, snapshots>>

\* page.setUserAgent() resolves; page.goto(searchUrl) is called
SetUserAgent(r) ==
    /\ pc[r] = "setUserAgent"
    /\ pc' = Set(pc, r, "goto")
    /\ gotos' = Set(gotos, r, gotos[r] + 1)
    /\ UNCHANGED <<call, browser, browsers, i, lastError, attempts, waits, max, dom,
                   selector, queried, pending, response>>
    /\ UNCHANGED <<served, errorResults, sse, snapshots>>

\* getPageData: page.goto() resolves with the page loaded
GotoStructured(r, page) ==
    /\ pc[r] = "goto"
    /\ Name(r) = "read_webpage"
    /\ Truthy(UrlArg(r))
    /\ dom' = Set(dom, r, page)
    /\ pc' = Set(pc, r, "evaluate")
    /\ UNCHANGED <<call, browser, browsers, i, lastError, attempts, waits, gotos,
                   max, selector, queried, pending, response>>
    /\ UNCHANGED <<served, errorResults, sse, snapshots>>

\* search: page.goto() resolves with the result page loaded
GotoSearch(r, page) ==
    /\ pc[r] = "goto"
    /\ Name(r) = "duckduckgo_search"
    /\ dom' = Set(dom, r, page)
    /\ pc' = Set(pc, r, "waitForSelector")
    /\ UNCHANGED <<call, browser, browsers, i, lastError, attempts, waits, gotos,
                   max, selector, queried, pending, response>>
    /\ UNCHANGED <<served, errorResults, sse, snapshots>>

\* GotoMarkdown without the three checks of the response
GotoMarkdownUnvalidated(r, nav) ==
    /\ pc[r] = "goto"
    /\ Name(r) = "read_webpage_markdown"
    /\ Truthy(UrlArg(r))
    /\ dom' = Set(dom, r, nav)
    /\ pc' = Set(pc, r, "waitForFunction")
    /\ UNCHANGED <<lastError, attempts, waits, pending, browsers, response>>
    /\ UNCHANGED <<call, browser, i, gotos, max, selector, queried>>
    /\ UNCHANGED <<served, errorResults, sse, snapshots>>

\* getPageMarkdown: page.goto() resolves and its outcome is validated
GotoMarkdown(r, nav) ==
    /\ pc[r] = "goto"
    /\ Name(r) = "read_webpage_markdown"
    /\ Truthy(UrlArg(r))
    /\ dom' = Set(dom, r, nav)
    /\ IF nav.response = "null"
       THEN Throw(r, NoResponseMsg)
       ELSE IF nav.status >= 400
       THEN Throw(r, HttpErrorMsg(nav.status))
       ELSE IF StartsWith(nav.url, "chrome-error://")
       THEN Throw(r, ErrorPageMsg)
       ELSE /\ pc' = Set(pc, r, "waitForFunction")
            /\ UNCHANGED <<lastError, attempts, waits, pending, browsers, response>>
    /\ UNCHANGED <<call, browser, i, gotos, max, selector, queried>>
    /\ UNCHANGED <<served, errorResults, sse, snapshots>>

\* WaitForSelector without the .catch: a rejection leaves the try block
WaitForSelectorThrows(r, how) ==
    /\ pc[r] = "waitForSelector"
    /\ how = "found" => Len(dom[r].modern) > 0
    /\ how = "timeout" => Len(dom[r].modern) = 0
    /\ selector' = Set(selector, r, how)
    /\ IF how = "found"
       THEN /\ pc' = Set(pc, r, "evaluate")
            /\ UNCHANGED <<lastError, attempts, waits, pending, browsers, response>>
       ELSE Throw(r, IF how = "timeout" THEN SelectorTimeout ELSE TargetClosed)
    /\ UNCHANGED <<call, browser, i, gotos, max, dom, queried>>
    /\ UNCHANGED <<served, errorResults, sse, snapshots>>

\* search: page.waitForSelector() settles; a rejection is swallowed by .catch
WaitForSelector(r, how) ==
    /\ pc[r] = "waitForSelector"
    /\ how = "found" => Len(dom[r].modern) > 0
    /\ how = "timeout" => Len(dom[r].modern) = 0
    /\ selector' = Set(selector, r, how)
    /\ pc' = Set(pc, r, "evaluate")
    /\ UNCHANGED <<call, browser, browsers, i, lastError, attempts, waits, gotos,
                   max, dom, queried, pending, response>>
    /\ UNCHANGED <<served, errorResults, sse, snapshots>>

\* getPageData: page.evaluate() resolves, the JSON text is returned
EvaluateStructured(r) ==
    /\ pc[r] = "evaluate"
    /\ Name(r) = "read_webpage"
    /\ Return(r, JSONstringify(
          [url |-> UrlArg(r).v] @@ StructuredEvaluate(dom[r], MAX_LINKS, MAX_IMAGES)))
    /\ UNCHANGED <<call, browser, i, gotos, max, dom, selector, queried>>
    /\ UNCHANGED <<served, errorResults, sse, snapshots>>

\* search: page.evaluate() resolves, the results are returned
EvaluateSearch(r) ==
    /\ pc[r] = "evaluate"
    /\ Name(r) = "duckduckgo_search"
    /\ queried' = Set(queried, r, SelectorsQueried(dom[r]))
    /\ Return(r, SearchEvaluate(dom[r], max[r]))
    /\ UNCHANGED <<call, browser, i, gotos, max, dom, selector>>
    /\ UNCHANGED <<served, errorResults, sse, snapshots>>

\* getPageMarkdown: page.waitForFunction(readyState === "complete") resolves
WaitForFunction(r) ==
    /\ pc[r] = "waitForFunction"
    /\ dom' = Set(dom, r, [dom[r] EXCEPT !.readyState = "complete"])
    /\ pc' = Set(pc, r, "content")
    /\ UNCHANGED <<call, browser, browsers, i, lastError, attempts, waits, gotos,
                   max, selector, queried, pending, response>>
    /\ UNCHANGED <<served, errorResults, sse, snapshots>>

\* getPageMarkdown: page.content() resolves; Readability and Turndown run
Content(r, article) ==
    /\ pc[r] = "content"
    /\ snapshots' = Set(snapshots, r, Append(snapshots[r], dom[r]))
    /\ IF article.t = "null" \/ article.content = ""
       THEN Throw(r, NoArticleMsg)
       ELSE Return(r, JSONstringify(
               [title |-> article.title, markdown |-> Turndown(article.content),
                url |-> UrlArg(r).v]))
    /\ UNCHANGED <<call, browser, i, gotos, max, dom, selector, queried>>
    /\ UNCHANGED <<served, errorResults, sse>>

\* An awaited puppeteer call inside a try block rejects
StepFail(r, msg) ==
    /\ pc[r] \in {"newPage", "setUserAgent", "goto", "evaluate", "waitForFunction",
                  "content"}
    /\ Throw(r, msg)
    /\ UNCHANGED <<call, browser, i, gotos, max, dom, selector, queried>>
    /\ UNCHANGED <<served, errorResults, sse, snapshots>>

\* Backoff of a loop that forgets its attempts: each retry starts the count
\* over
BackoffRestarts(r) ==
    /\ pc[r] = "backoff"
    /\ i' = Set(i, r, 0)
    /\ attempts' = Set(attempts, r, <<>>)
    /\ waits' = Set(waits, r, <<>>)
    /\ gotos' = Set(gotos, r, 0)
    /\ pc' = Set(pc, r, "newPage")
    /\ UNCHANGED <<pending, browsers, response>>
    /\ UNCHANGED <<call, browser, lastError, max, dom, selector, queried>>
    /\ UNCHANGED <<served, errorResults, sse, snapshots>>

\* Backoff with the launch inside the loop: each retry launches a browser
BackoffRelaunch(r) ==
    /\ pc[r] = "backoff"
    /\ i' = Set(i, r, i[r] + 1)
    /\ IF i[r] + 1 < maxRetries
       THEN /\ pc' = Set(pc, r, "launch")
            /\ UNCHANGED <<pending, browsers, response>>
       ELSE Finally(r, Err(lastError[r]))
    /\ UNCHANGED <<call, browser, lastError, attempts, waits, gotos, max, dom,
                   selector, queried>>
    /\ UNCHANGED <<served, errorResults, sse, snapshots>>

\* safeOperation's timer fires: i++, and the loop calls operation() again
Backoff(r) ==
    /\ pc[r] = "backoff"
    /\ i' = Set(i, r, i[r] + 1)
    /\ IF i[r] + 1 < maxRetries
       THEN /\ pc' = Set(pc, r, "newPage")
            /\ UNCHANGED <<pending, browsers, response>>
       ELSE Finally(r, Err(lastError[r]))
    /\ UNCHANGED <<call, browser, lastError, attempts, waits, gotos, max, dom,
                   selector, queried>>
    /\ UNCHANGED <<served, errorResults, sse, snapshots>>

\* browser.close() resolves; the completion of the try block reaches the
\* handler, which returns
CloseOk(r) ==
    /\ pc[r] = "close"
    /\ browsers' = [browsers EXCEPT ![browser[r]].status = "closed"]
    /\ response' = Set(response, r, HandlerReturn(Name(r), pending[r]))
    /\ pc' = Set(pc, r, "done")
    /\ UNCHANGED <<call, browser, i, lastError, attempts, waits, gotos, max, dom,
                   selector, queried, pending>>
    /\ UNCHANGED <<served, errorResults, sse, snapshots>>

\* The response is sent; the slot serves the next request
Complete(r) ==
    /\ pc[r] = "done"
    /\ pc' = Set(pc, r, "idle")
    /\ call' = Set(call, r, NoCall)
    /\ browser' = Set(browser, r, 0)
    /\ i' = Set(i, r, 0)
    /\ lastError' = Set(lastError, r, <<>>)
    /\ attempts' = Set(attempts, r, <<>>)
    /\ waits' = Set(waits, r, <<>>)
    /\ gotos' = Set(gotos, r, 0)
    /\ max' = Set(max, r, 0)
    /\ dom' = Set(dom, r, NoDom)
    /\ selector' = Set(selector, r, "none")
    /\ queried' = Set(queried, r, {})
    /\ pending' = Set(pending, r, NoOutcome)
    /\ response' = Set(response, r, NoResponse)
    /\ snapshots' = Set(snapshots, r, <<>>)
    /\ errorResults' =
          IF response[r].kind = "result" /\ response[r].isError
          THEN errorResults + 1 ELSE errorResults
    /\ UNCHANGED <<browsers, served, sse>>

-----------------------------------------------------------------------------
(* The SSE layer *)

\* the variables of the tool calls
calls == <<pc, call, browser, browsers, i, lastError, attempts, waits, gotos,
           max, dom, selector, queried, pending, response, served, errorResults,
           snapshots>>

\* GET /sse: a transport is made for the client and assigned to `transport`;
\* the handler awaits server.connect(transport)
SseGet(c) ==
    /\ ~alive[c]
    /\ conn[c] = "closed"
    /\ alive' = Set(alive, c, TRUE)
    /\ transport' = c
    /\ latest' = c
    /\ conn' = Set(conn, c, "connecting")
    /\ UNCHANGED <<post, calls>>

\* server.connect settles (a rejection is logged) and req.on("close") is
\* registered; on a request that has closed already the listener never runs
SseConnect(c) ==
    /\ conn[c] = "connecting"
    /\ conn' = Set(conn, c, IF alive[c] THEN "listening" ELSE "closed")
    /\ UNCHANGED <<transport, alive, latest, post, calls>>

\* The connection of client c closes; the close listener, if registered, runs
SseClose(c) ==
    /\ alive[c]
    /\ alive' = Set(alive, c, FALSE)
    /\ IF conn[c] = "listening"
       THEN /\ transport' = 0
            /\ conn' = Set(conn, c, "closed")
       ELSE UNCHANGED <<transport, conn>>
    /\ UNCHANGED <<latest, post, calls>>

\* POST /messages without a transport: 400 { error: "No session" }
PostNoSession ==
    /\ transport = 0
    /\ post' = "400 No session"
    /\ UNCHANGED <<transport, alive, conn, latest, calls>>

\* PostMessages without the test of `transport`
PostMessagesUnchecked(r, name, args) ==
    /\ post' = "handled"
    /\ CallTool(r, name, args)

\* POST /messages with a transport: transport.handlePostMessage hands the
\* tool call to the CallToolRequestSchema handler
PostMessages(r, name, args) ==
    /\ transport # 0
    /\ post' = "handled"
    /\ CallTool(r, name, args)

-----------------------------------------------------------------------------
(* The next-state relations *)

\* The awaited promise of the call in slot r settles, in any of the ways the
\* inputs allow, and the call runs to its next await
Await(r) ==
    \/ LaunchOk(r)
    \/ LaunchFail(r, LaunchFailed)
    \/ NewPage(r)
    \/ SetUserAgent(r)
    \/ \E page \in StructuredPages : GotoStructured(r, page)
    \/ \E page \in SearchPages : GotoSearch(r, page)
    \/ \E nav \in Navigations : GotoMarkdown(r, nav)
    \/ \E how \in {"found", "timeout", "error"} : WaitForSelector(r, how)
    \/ EvaluateStructured(r)
    \/ EvaluateSearch(r)
    \/ WaitForFunction(r)
    \/ \E article \in Articles : Content(r, article)
    \/ \E msg \in PuppeteerErrors : StepFail(r, msg)
    \/ Backoff(r)
    \/ CloseOk(r)
    \/ Complete(r)

\* One client that stays connected; its tool calls come one at a time and
\* range over all the inputs
Next ==
    \/ \E c \in SingleClient : SseGet(c)
    \/ \E c \in SingleClient : SseConnect(c)
    \/ PostNoSession
    \/ \E r \in Serial :
        \/ \E name \in ToolNames : \E args \in Arguments(name) : PostMessages(r, name, args)
        \/ Await(r)

Spec == Init /\ [][Next]_vars

\* The inputs of the specifications with several calls or clients at a time:
\* one well-formed call of each tool
ToolCalls ==
    {[name |-> "read_webpage", arguments |-> [url |-> Str("http://example.com/")]],
     [name |-> "read_webpage_markdown", arguments |-> [url |-> Str("http://example.com/")]],
     [name |-> "duckduckgo_search", arguments |-> [query |-> Str("tla"), maxResults |-> Num(1)]]}

APage == [anchors |-> Iota(1), images |-> Iota(1), lang |-> Str("en")]
ModernResults == [modern |-> Containers("modern", 2), legacy |-> Containers("legacy", 0)]
LegacyResults == [modern |-> Containers("modern", 0), legacy |-> Containers("legacy", 2)]
GoodNavigation ==
    [response |-> "response", status |-> 200, url |-> Url, readyState |-> "interactive"]
NotFound ==
    [response |-> "response", status |-> 404, url |-> Url, readyState |-> "interactive"]

\* The awaits of the call in slot r, over these inputs
Step(r) ==
    \/ LaunchOk(r)
    \/ LaunchFail(r, LaunchFailed)
    \/ NewPage(r)
    \/ SetUserAgent(r)
    \/ GotoStructured(r, APage)
    \/ \E page \in {ModernResults, LegacyResults} : GotoSearch(r, page)
    \/ \E nav \in {GoodNavigation, NotFound} : GotoMarkdown(r, nav)
    \/ \E how \in {"found", "timeout", "error"} : WaitForSelector(r, how)
    \/ EvaluateStructured(r)
    \/ EvaluateSearch(r)
    \/ WaitForFunction(r)
    \/ Content(r, Article("A", "<h1>A</h1>"))
    \/ StepFail(r, TargetClosed)
    \/ Backoff(r)
    \/ CloseOk(r)
    \/ Complete(r)

\* One client that stays connected and sends tool calls without waiting for
\* the answers: the handler runs for several calls at a time
NextConc ==
    \/ \E c \in SingleClient : SseGet(c)
    \/ \E c \in SingleClient : SseConnect(c)
    \/ PostNoSession
    \/ \E r \in Reqs :
        \/ \E c \in ToolCalls : PostMessages(r, c.name, c.arguments)
        \/ Step(r)

SpecConc == Init /\ [][NextConc]_vars

\* One client that stays connected; its tool calls come one at a time
NextLive ==
    \/ \E c \in SingleClient : SseGet(c)
    \/ \E c \in SingleClient : SseConnect(c)
    \/ PostNoSession
    \/ \E r \in Serial :
        \/ \E c \in ToolCalls : PostMessages(r, c.name, c.arguments)
        \/ Step(r)

\* ... and every awaited promise settles in the end: puppeteer's calls
\* resolve or reject within their timeouts, and the timers fire
SpecLive == Init /\ [][NextLive]_vars /\ \A r \in Serial : WF_vars(Step(r))

\* Several clients that connect and disconnect in any order; tool calls are
\* posted whenever there is a transport, one at a time
NextSse ==
    \/ \E c \in Clients : SseGet(c)
    \/ \E c \in Clients : SseConnect(c)
    \/ \E c \in Clients : SseClose(c)
    \/ PostNoSession
    \/ \E r \in Serial :
        \/ \E c \in ToolCalls : PostMessages(r, c.name, c.arguments)
        \/ Step(r)

SpecSse == Init /\ [][NextSse]_vars


-----------------------------------------------------------------------------
(* Vocabulary of the properties *)

Operations == {"read_webpage", "read_webpage_markdown", "duckduckgo_search"}

\* the awaits inside the try blocks
BodyPcs == {"newPage", "setUserAgent", "goto", "waitForSelector", "evaluate",
            "waitForFunction", "content", "backoff"}

\* Messages carrying one of the three transient texts
TransientMessages == {TargetClosed, FrameDetached, ContextDestroyed}

\* Messages of the terminal navigation errors and of the extraction failure
TerminalMessages ==
    {NoResponseMsg, HttpErrorMsg(404), HttpErrorMsg(500), ErrorPageMsg, NoArticleMsg}

\* the result `Error: <message>`, flagged isError
ErrorResult(msg) == [kind |-> "result", text |-> <<"Error: ">> \o msg, isError |-> TRUE]

Markdown(r) == Name(r) = "read_webpage_markdown"

\* the session of request r
Session(r) == browsers[browser[r]]

-----------------------------------------------------------------------------
(* C1: in each of the three operations, a session that was launched is      *)
(* closed exactly once, on every exit path, and only after the operation   *)
(* body has finished: while the body runs the session is open and close    *)
(* was not called; once the handler has returned, the session is closed    *)
(* and close was called once; sessions of earlier requests stay closed.    *)
C1_SessionClosedExactlyOnce ==
    /\ \A b \in 1..Len(browsers) :
          /\ browsers[b].closeCalls <= 1
          /\ browsers[b].status = "closed" => browsers[b].closeCalls = 1
          /\ (\A r \in Reqs : browser[r] # b) =>
                browsers[b].status = "closed" /\ browsers[b].closeCalls = 1
    /\ \A r \in Reqs :
          /\ pc[r] \in BodyPcs =>
                /\ browser[r] # 0
                /\ Session(r).status = "open"
                /\ Session(r).closeCalls = 0
          /\ pc[r] = "close" =>
                /\ pending[r] # NoOutcome
                /\ Session(r).status = "open"
                /\ Session(r).closeCalls = 1
          /\ pc[r] = "done" /\ browser[r] # 0 =>
                /\ Session(r).status = "closed"
                /\ Session(r).closeCalls = 1

\* read-markdown has returned after three transient failures, session closed
C1_Witness ==
    \E r \in Reqs :
        /\ pc[r] = "done"
        /\ Markdown(r)
        /\ Len(attempts[r]) = 3
        /\ response[r] = ErrorResult(TargetClosed)
        /\ Session(r).status = "closed"
        /\ Session(r).closeCalls = 1


-----------------------------------------------------------------------------
(* C2: in read-markdown an attempt that ends with a non-transient error is  *)
(* the last one.  When attempt k ends with a terminal navigation error (no *)
(* response, status >= 400, chrome-error:// URL) or with the extraction    *)
(* failure, no attempt and no backoff wait follows it, at most k           *)
(* navigations were made (exactly one, and no wait at all, when it is the  *)
(* first attempt) and that error is the one returned.  The same holds of a *)
(* navigation timeout, which may strike before the navigation was started. *)
C2_TerminalErrorEndsOperation ==
    \A r \in Reqs :
        Markdown(r) =>
            \A k \in 1..Len(attempts[r]) :
                LET a == attempts[r][k]
                IN  a.kind = "err" /\ a.message \notin TransientMessages =>
                        /\ k = Len(attempts[r])
                        /\ pc[r] \in {"close", "done"}
                        /\ pending[r] = a
                        /\ Len(waits[r]) = k - 1
                        /\ gotos[r] <= k
                        /\ a.message \in TerminalMessages /\ k = 1 => gotos[r] = 1
                        /\ pc[r] = "done" => response[r] = ErrorResult(a.message)

\* a 404 on the first attempt: one navigation, no wait, the error returned
C2_Witness ==
    \E r \in Reqs :
        /\ Markdown(r)
        /\ pc[r] = "done"
        /\ attempts[r] = <<Err(HttpErrorMsg(404))>>
        /\ gotos[r] = 1
        /\ waits[r] = <<>>
        /\ response[r] = ErrorResult(<<"HTTP error: ", "404">>)

-----------------------------------------------------------------------------
(* C3: read-markdown waits 1000 ms before attempt 2 and 2000 ms before     *)
(* attempt 3; when attempts 1 and 2 fail with a transient error and        *)
(* attempt 3 succeeds, the result of attempt 3 is returned, not flagged as *)
(* an error.                                                               *)
C3_SucceedsOnThirdAttempt ==
    \A r \in Reqs :
        Markdown(r) =>
            /\ pc[r] \in BodyPcs \ {"backoff"} /\ i[r] = 1 => waits[r] = <<1000>>
            /\ pc[r] \in BodyPcs \ {"backoff"} /\ i[r] = 2 => waits[r] = <<1000, 2000>>
            /\ ( /\ Len(attempts[r]) = 3
                 /\ \A k \in 1..2 : attempts[r][k] \in {Err(m) : m \in TransientMessages}
                 /\ attempts[r][3].kind = "ok" ) =>
                    /\ waits[r] = <<1000, 2000>>
                    /\ pc[r] \in {"close", "done"}
                    /\ pending[r] = attempts[r][3]
                    /\ pc[r] = "done" =>
                          response[r] = [kind |-> "result", isError |-> FALSE,
                                         text |-> attempts[r][3].value]

\* two transient failures, then a success that was returned
C3_Witness ==
    \E r \in Reqs :
        /\ Markdown(r)
        /\ pc[r] = "done"
        /\ Len(attempts[r]) = 3
        /\ attempts[r][1] = Err(TargetClosed)
        /\ attempts[r][2] = Err(TargetClosed)
        /\ attempts[r][3].kind = "ok"
        /\ response[r].kind = "result"
        /\ ~response[r].isError
        /\ waits[r] = <<1000, 2000>>

-----------------------------------------------------------------------------
(* C4: read-markdown makes at most 3 attempts; it fails with a transient   *)
(* error only after exactly 3 attempts, all of them transient failures,    *)
(* and the error returned is the one of the third attempt.                 *)
C4_ExhaustedRetriesSurfaceLastError ==
    \A r \in Reqs :
        Markdown(r) =>
            /\ Len(attempts[r]) <= 3
            /\ gotos[r] <= 3
            /\ ( /\ Len(attempts[r]) = 3
                 /\ \A k \in 1..3 : attempts[r][k] \in {Err(m) : m \in TransientMessages} ) =>
                    /\ pc[r] \in {"close", "done"}
                    /\ pending[r] = attempts[r][3]
            /\ ( /\ pc[r] \in {"close", "done"}
                 /\ pending[r] \in {Err(m) : m \in TransientMessages} ) =>
                    /\ Len(attempts[r]) = 3
                    /\ \A k \in 1..3 : attempts[r][k] \in {Err(m) : m \in TransientMessages}
                    /\ pending[r] = attempts[r][3]
                    /\ pc[r] = "done" => response[r] = ErrorResult(attempts[r][3].message)

\* three transient failures with different messages, the third one returned
C4_Witness ==
    \E r \in Reqs :
        /\ Markdown(r)
        /\ pc[r] = "done"
        /\ attempts[r] = <<Err(TargetClosed), Err(FrameDetached), Err(ContextDestroyed)>>
        /\ response[r] = ErrorResult(ContextDestroyed)

-----------------------------------------------------------------------------
(* C5: a search whose query is absent or empty ends at once with the error *)
(* result 'query' parameter is required, flagged isError, and launches no  *)
(* browser.                                                                *)
C5_MissingQueryOpensNoSession ==
    \A r \in Reqs :
        ( /\ Name(r) = "duckduckgo_search"
          /\ \/ "query" \notin DOMAIN call[r].arguments
             \/ call[r].arguments.query = Str("") ) =>
            /\ pc[r] = "done"
            /\ browser[r] = 0
            /\ response[r] = [kind |-> "result", isError |-> TRUE,
                              text |-> <<"Error: ", "'query' parameter is required">>]

\* a search with the empty query has been answered
C5_Witness ==
    \E r \in Reqs :
        /\ Name(r) = "duckduckgo_search"
        /\ "query" \in DOMAIN call[r].arguments
        /\ call[r].arguments.query = Str("")
        /\ pc[r] = "done"
        /\ response[r].isError
        /\ browser[r] = 0

-----------------------------------------------------------------------------
(* C6: in the three operations every failure ends as the result            *)
(* `Error: <message>` flagged isError: a failed launch, and whatever the   *)
(* try block threw.  No error leaves the handler, and the handler's return *)
(* leaves the server able to take the next request.                        *)
C6_FailuresBecomeErrorResults ==
    \A r \in Reqs :
        Name(r) \in Operations =>
            /\ response[r].kind # "thrown"
            /\ pc[r] = "done" =>
                  /\ response[r].kind = "result"
                  /\ ENABLED Complete(r)
                  /\ pending[r].kind = "err" =>
                        response[r] = ErrorResult(pending[r].message)
                  /\ pending[r].kind = "ok" => ~response[r].isError
                  /\ pending[r].kind = "none" => response[r].isError
                  /\ ( /\ pending[r].kind = "none"
                       /\ Name(r) # "duckduckgo_search" ) =>
                        response[r] = ErrorResult(LaunchFailed)

\* after an error result was returned, a later request has been served well
C6_Witness ==
    \E r \in Reqs :
        /\ errorResults >= 1
        /\ Name(r) \in Operations
        /\ pc[r] = "done"
        /\ response[r].kind = "result"
        /\ ~response[r].isError


-----------------------------------------------------------------------------
(* Vocabulary of the search properties *)

Search(r) == Name(r) = "duckduckgo_search"

\* search has returned its results
SearchReturned(r) == Search(r) /\ pc[r] \in {"close", "done"} /\ pending[r].kind = "ok"

\* the maxResults the caller asked for, or the default of 10 when none is given
RequestedMax(r) ==
    IF "maxResults" \in DOMAIN call[r].arguments
    THEN call[r].arguments.maxResults.v
    ELSE 10

\* the result containers of the page, of the layout the page shows
PageContainers(r) ==
    IF Len(dom[r].modern) > 0 THEN dom[r].modern ELSE dom[r].legacy

\* results are the first n of the containers cs, in page order
FirstOf(results, cs, n) ==
    /\ Len(results) = n
    /\ n <= Len(cs)
    /\ \A k \in 1..n : results[k] = [from |-> cs[k].layout, pos |-> cs[k].pos]

-----------------------------------------------------------------------------
(* C7: the list search returns is never longer than the effective maximum  *)
(* (the requested maxResults, or 10 when none is given), and when the page *)
(* has at least that many containers it is exactly the first that many, in *)
(* page order.                                                             *)
C7_ResultsWithinRequestedMax ==
    \A r \in Reqs :
        SearchReturned(r) =>
            /\ Len(pending[r].value) <= RequestedMax(r)
            /\ Len(PageContainers(r)) >= RequestedMax(r) =>
                  FirstOf(pending[r].value, PageContainers(r), RequestedMax(r))

-----------------------------------------------------------------------------
(* C8: whatever maxResults the caller passes, the maximum search applies   *)
(* lies in 1..50 (the schema's minimum and maximum), and search returns at *)
(* most 50 items.                                                          *)
C8_EffectiveMaxWithinSchemaBounds ==
    \A r \in Reqs :
        /\ Search(r) /\ pc[r] \in {"launch"} \cup BodyPcs =>
              max[r] \in SchemaMinimum..SchemaMaximum
        /\ SearchReturned(r) => Len(pending[r].value) <= SchemaMaximum

-----------------------------------------------------------------------------
(* C9: the structured read returns the first MAX_LINKS anchors of the page *)
(* in document order (all of them when there are fewer), so exactly        *)
(* MAX_LINKS entries when the page has more; likewise the first MAX_IMAGES *)
(* images.  Neither sequence is longer than its cap.                       *)
C9_LinksAndImagesCapped ==
    \A r \in Reqs :
        ( /\ Name(r) = "read_webpage"
          /\ pc[r] \in {"close", "done"}
          /\ pending[r].kind = "ok" ) =>
            LET data == pending[r].value[2]
                na == Len(dom[r].anchors)
                ni == Len(dom[r].images)
            IN  /\ Len(data.links) <= MAX_LINKS
                /\ Len(data.images) <= MAX_IMAGES
                /\ na > MAX_LINKS => Len(data.links) = MAX_LINKS
                /\ na <= MAX_LINKS => Len(data.links) = na
                /\ ni > MAX_IMAGES => Len(data.images) = MAX_IMAGES
                /\ ni <= MAX_IMAGES => Len(data.images) = ni
                /\ \A k \in 1..Len(data.links) : data.links[k].href = dom[r].anchors[k]
                /\ \A k \in 1..Len(data.images) : data.images[k].src = dom[r].images[k]
                /\ pc[r] = "done" => response[r] = ToolResult(pending[r].value)

\* a page with more anchors and images than the caps has been read
C9_Witness ==
    \E r \in Reqs :
        /\ Name(r) = "read_webpage"
        /\ pc[r] = "done"
        /\ pending[r].kind = "ok"
        /\ Len(dom[r].anchors) > MAX_LINKS
        /\ Len(dom[r].images) > MAX_IMAGES
        /\ Len(response[r].text[2].links) = MAX_LINKS
        /\ Len(response[r].text[2].images) = MAX_IMAGES

-----------------------------------------------------------------------------
(* C10: search takes its containers from one layout.  The legacy selector  *)
(* is queried exactly when the modern one matches nothing; the results are *)
(* never a mix of the two layouts; on a page with modern containers they   *)
(* are modern ones; on a page with only legacy containers they are the     *)
(* leading legacy containers in page order, min(maxResults, all) of them   *)
(* for a maxResults >= 0.                                                   *)
C10_FallbackNotMerge ==
    \A r \in Reqs :
        SearchReturned(r) =>
            LET results == pending[r].value
                modern == dom[r].modern
                legacy == dom[r].legacy
            IN  /\ "modern" \in queried[r]
                /\ "legacy" \in queried[r] <=> Len(modern) = 0
                /\ \A j, k \in 1..Len(results) : results[j].from = results[k].from
                /\ Len(modern) > 0 =>
                      \A k \in 1..Len(results) : results[k].from = "modern"
                /\ Len(modern) = 0 =>
                      /\ FirstOf(results, legacy, Len(results))
                      /\ max[r] >= 0 => Len(results) = Min(max[r], Len(legacy))

\* a page with 12 legacy containers and no modern one, maxResults 5
C10_Witness ==
    \E r \in Reqs :
        /\ SearchReturned(r)
        /\ pc[r] = "done"
        /\ Len(dom[r].modern) = 0
        /\ Len(dom[r].legacy) = 12
        /\ max[r] = 5
        /\ selector[r] = "timeout"
        /\ response[r].text[2] =
              [k \in 1..5 |-> [from |-> "legacy", pos |-> k]]

-----------------------------------------------------------------------------
\* a call in flight that holds a session
Holds(r) == pc[r] # "idle" /\ browser[r] # 0

(* C11: under any interleaving of calls running at the same time, each     *)
(* call uses only the session it launched: the session a call holds was    *)
(* launched by that call, no two calls in flight hold the same session,    *)
(* and while the body of a call runs its session is open and close was     *)
(* not called on it, whatever the other calls have released.               *)
C11_SessionsNotShared ==
    /\ \A r \in Reqs : Holds(r) =>
          /\ browser[r] \in 1..Len(browsers)
          /\ Session(r).owner = r
    /\ \A r1, r2 \in Reqs : r1 # r2 /\ Holds(r1) /\ Holds(r2) => browser[r1] # browser[r2]
    /\ \A r \in Reqs : pc[r] \in BodyPcs =>
          /\ Session(r).status = "open"
          /\ Session(r).closeCalls = 0

\* one call has released its session while another, of a different kind, is
\* still inside its body
C11_Witness ==
    \E r1, r2 \in Reqs :
        /\ r1 # r2
        /\ Name(r1) # Name(r2)
        /\ pc[r1] = "done" /\ browser[r1] # 0 /\ Session(r1).status = "closed"
        /\ pc[r2] \in BodyPcs /\ gotos[r2] >= 1
        /\ Session(r2).status = "open"

-----------------------------------------------------------------------------
(* C12: the structured read reports language "unknown" for every page      *)
(* whose document element has no lang attribute or an empty one, and the   *)
(* value of the attribute, unchanged, for every page with a non-empty one. *)
C12_LanguageDefault ==
    \A r \in Reqs :
        ( /\ Name(r) = "read_webpage"
          /\ pc[r] \in {"close", "done"}
          /\ pending[r].kind = "ok" ) =>
            LET language == pending[r].value[2].language
                attr == dom[r].lang
            IN  /\ attr \in {NoAttribute, Str("")} => language = "unknown"
                /\ attr \notin {NoAttribute, Str("")} => language = attr.v
                /\ pc[r] = "done" => response[r].text[2].language = language

\* a page without the attribute has been reported as "unknown"
C12_Witness ==
    \E r \in Reqs :
        /\ Name(r) = "read_webpage"
        /\ pc[r] = "done"
        /\ pending[r].kind = "ok"
        /\ dom[r].lang = NoAttribute
        /\ response[r].text[2].language = "unknown"

-----------------------------------------------------------------------------
\* the attempts of read-markdown made so far, the one in progress included
AttemptsMade(r) ==
    IF pc[r] \in BodyPcs \ {"backoff"} THEN Len(attempts[r]) + 1 ELSE Len(attempts[r])

(* C13: safeOperation calls the operation at most maxRetries = 3 times.    *)
(* The k-th wait lasts 1000*k ms and follows a transient failure of        *)
(* attempt k, k < 3; it is followed by attempt k+1.  After a failure of    *)
(* attempt 3 there is no wait and no further attempt: the error is raised. *)
(* Once an attempt is in progress or the loop has ended, the waits are one *)
(* fewer than the attempts made.                                           *)
C13_WaitsBetweenAttempts ==
    \A r \in Reqs :
        Markdown(r) =>
            /\ AttemptsMade(r) <= maxRetries
            /\ waits[r] = [k \in 1..Len(waits[r]) |-> 1000 * k]
            /\ \A k \in 1..Len(waits[r]) :
                  /\ k < maxRetries
                  /\ k <= Len(attempts[r])
                  /\ attempts[r][k] \in {Err(m) : m \in TransientMessages}
            /\ pc[r] = "backoff" =>
                  /\ Len(waits[r]) = Len(attempts[r])
                  /\ Len(attempts[r]) < maxRetries
            /\ pc[r] \in BodyPcs \ {"backoff"} =>
                  /\ Len(attempts[r]) = i[r]
                  /\ Len(waits[r]) = AttemptsMade(r) - 1
            /\ pc[r] \in {"close", "done"} /\ browser[r] # 0 =>
                  /\ AttemptsMade(r) >= 1
                  /\ Len(waits[r]) = AttemptsMade(r) - 1
                  /\ pending[r] = attempts[r][Len(attempts[r])]
            /\ Len(attempts[r]) = maxRetries =>
                  /\ pc[r] \in {"close", "done"}
                  /\ waits[r] = <<1000, 2000>>

\* the third attempt has failed with a transient error after two waits, and
\* the error has been returned
C13_Witness ==
    \E r \in Reqs :
        /\ Markdown(r)
        /\ pc[r] = "done"
        /\ attempts[r] = <<Err(TargetClosed), Err(TargetClosed), Err(TargetClosed)>>
        /\ waits[r] = <<1000, 2000>>
        /\ response[r] = ErrorResult(TargetClosed)

-----------------------------------------------------------------------------
\* the parameter the tool's input schema requires
RequiredParameter(name) == IF name = "duckduckgo_search" THEN "query" ELSE "url"

\* the call in slot r lacks its required parameter
MissingRequired(r) ==
    /\ Name(r) \in Operations
    /\ RequiredParameter(Name(r)) \notin DOMAIN call[r].arguments

(* C14: for each of the three operations, a call without its required      *)
(* parameter (url for the two reads, query for search) opens no browser    *)
(* session and is answered with an error result.                           *)
C14_MissingParameterOpensNoSession ==
    \A r \in Reqs :
        MissingRequired(r) =>
            /\ browser[r] = 0
            /\ pc[r] = "done" => response[r].kind = "result" /\ response[r].isError

-----------------------------------------------------------------------------
\* the operations without a retry loop
SingleShot(r) == Name(r) \in {"read_webpage", "duckduckgo_search"}

(* C15: the structured read and search navigate once per request and never *)
(* retry: page.goto is called at most once, and exactly once in a request  *)
(* that got past it; there is no backoff wait and no second attempt; a     *)
(* failure of the navigation or of a later step, a transient renderer      *)
(* error such as 'Target closed' included, ends the body at once and is    *)
(* returned as the error result.                                           *)
C15_NoRetryOutsideMarkdown ==
    \A r \in Reqs :
        SingleShot(r) =>
            /\ gotos[r] <= 1
            /\ i[r] = 0
            /\ waits[r] = <<>>
            /\ attempts[r] = <<>>
            /\ pc[r] # "backoff"
            /\ pc[r] \in {"goto", "waitForSelector", "evaluate"} => gotos[r] = 1
            /\ pc[r] \in {"close", "done"} /\ pending[r].kind = "ok" => gotos[r] = 1
            /\ pc[r] = "done" /\ pending[r].kind = "err" =>
                  response[r] = ErrorResult(pending[r].message)

\* the one navigation of a structured read has failed with 'Target closed',
\* which has been returned
C15_Witness ==
    \E r \in Reqs :
        /\ Name(r) = "read_webpage"
        /\ pc[r] = "done"
        /\ gotos[r] = 1
        /\ dom[r] = NoDom
        /\ pending[r] = Err(TargetClosed)
        /\ response[r] = ErrorResult(TargetClosed)

-----------------------------------------------------------------------------
\* the three checks of the navigation outcome pass
ValidOutcome(d) ==
    /\ d.response = "response"
    /\ d.status < 400
    /\ ~StartsWith(d.url, "chrome-error://")

\* the attempt handed its snapshot to Readability
Transformed(a) == a.kind = "ok" \/ a = Err(NoArticleMsg)

(* C16: in every attempt of read-markdown the HTML snapshot is taken and   *)
(* given to Readability and Turndown only after the navigation outcome     *)
(* passed the three checks (response present, status < 400, no error page) *)
(* and after the document reached ready state 'complete': every document   *)
(* that went to the transformer was valid and complete, the wait for the   *)
(* ready state starts only on a valid outcome, and an attempt that failed  *)
(* before its snapshot leaves nothing to the transformer.                  *)
C16_TransformAfterValidation ==
    \A r \in Reqs :
        Markdown(r) =>
            /\ \A k \in 1..Len(snapshots[r]) :
                  /\ ValidOutcome(snapshots[r][k])
                  /\ snapshots[r][k].readyState = "complete"
            /\ pc[r] = "waitForFunction" => ValidOutcome(dom[r])
            /\ pc[r] = "content" => ValidOutcome(dom[r]) /\ dom[r].readyState = "complete"
            /\ Len(snapshots[r]) <= 1
            /\ Len(snapshots[r]) = 1 =>
                  /\ pc[r] \in {"close", "done"}
                  /\ Transformed(attempts[r][Len(attempts[r])])
                  /\ snapshots[r][1] = dom[r]
            /\ \A k \in 1..Len(attempts[r]) :
                  Transformed(attempts[r][k]) =>
                      k = Len(attempts[r]) /\ Len(snapshots[r]) = 1

\* after an attempt that failed before its snapshot, a second attempt has
\* validated its navigation, waited for the ready state and been transformed
C16_Witness ==
    \E r \in Reqs :
        /\ Markdown(r)
        /\ pc[r] = "done"
        /\ Len(attempts[r]) = 2
        /\ attempts[r][1] = Err(ContextDestroyed)
        /\ attempts[r][2].kind = "ok"
        /\ Len(snapshots[r]) = 1
        /\ snapshots[r][1].status = 200
        /\ snapshots[r][1].readyState = "complete"

-----------------------------------------------------------------------------
(* C17: in search, when the modern containers have not appeared within the *)
(* 5000 ms of waitForSelector, the rejection is swallowed: the search goes *)
(* on to the extraction and no error is raised for the wait; what it       *)
(* returns are the leading legacy containers of the page, at least one of  *)
(* them when there is one and the maximum is 1 or more, and the empty list *)
(* when the page has neither layout.                                       *)
C17_SelectorTimeoutSwallowed ==
    \A r \in Reqs :
        Search(r) =>
            /\ pending[r] # Err(SelectorTimeout)
            /\ pc[r] = "done" => response[r] # ErrorResult(SelectorTimeout)
            /\ selector[r] \in {"timeout", "error"} => pc[r] \in {"evaluate", "close", "done"}
            /\ selector[r] = "timeout" /\ SearchReturned(r) =>
                  LET results == pending[r].value
                      legacy == dom[r].legacy
                  IN  /\ queried[r] = {"modern", "legacy"}
                      /\ FirstOf(results, legacy, Len(results))
                      /\ legacy = <<>> => results = <<>>
                      /\ Len(legacy) >= 1 /\ max[r] >= 1 => Len(results) >= 1
                      /\ pc[r] = "done" => response[r] = ToolResult(JSONstringify(results))

\* after the timeout of the wait, a page with 3 legacy containers and no
\* modern one has given its 3 containers
C17_Witness ==
    \E r \in Reqs :
        /\ Search(r)
        /\ pc[r] = "done"
        /\ selector[r] = "timeout"
        /\ Len(dom[r].legacy) = 3
        /\ max[r] = 10
        /\ ~response[r].isError
        /\ response[r].text[2] = [k \in 1..3 |-> [from |-> "legacy", pos |-> k]]

-----------------------------------------------------------------------------
(* C19: a read-markdown call launches one browser session whatever the     *)
(* number of its attempts.  From the launch until the handler returns, the *)
(* call keeps the same session and launches no other; a retry opens a new  *)
(* page with the session still open and never closed; close is called only *)
(* when the last attempt has returned or thrown.                           *)
C19_OneSessionForAllAttempts ==
    [][\A r \in Reqs :
          Markdown(r) /\ browser[r] # 0 /\ pc[r] # "done" =>
              /\ browser'[r] = browser[r]
              /\ Len(browsers') > Len(browsers) =>
                    browsers'[Len(browsers')].owner # r
              /\ pc'[r] \in BodyPcs =>
                    /\ browsers'[browser[r]].status = "open"
                    /\ browsers'[browser[r]].closeCalls = 0
              /\ pc[r] = "backoff" /\ pc'[r] # "backoff" =>
                    /\ pc'[r] = "newPage"
                    /\ i'[r] = i[r] + 1
              /\ browsers'[browser[r]].closeCalls > 0 =>
                    /\ pc'[r] \in {"close", "done"}
                    /\ pending'[r] = attempts'[r][Len(attempts'[r])]
      ]_vars

\* the third attempt navigates in the one session launched, still open
C19_Witness ==
    \E r \in Reqs :
        /\ Markdown(r)
        /\ pc[r] = "goto"
        /\ i[r] = 2
        /\ Len(attempts[r]) = 2
        /\ Len(browsers) = 1
        /\ browser[r] = 1
        /\ Session(r).status = "open"
        /\ Session(r).closeCalls = 0

-----------------------------------------------------------------------------
\* the call in slot r has ended with a result and its session is closed
Terminated(r) ==
    /\ pc[r] = "done"
    /\ response[r].kind = "result"
    /\ browser[r] # 0 => Session(r).status = "closed" /\ Session(r).closeCalls = 1

(* C18: provided every awaited navigation, evaluation and timer settles,   *)
(* every call of one of the three operations that has started ends with a  *)
(* result or an error result, and the session it launched is closed by     *)
(* then; the retry loop of read-markdown does not go on forever.           *)
C18_EveryOperationTerminates ==
    \A r \in Reqs :
        (pc[r] # "idle" /\ Name(r) \in Operations) ~> Terminated(r)

\* a read-markdown call has ended after three failed attempts, with its
\* session closed
C18_Witness ==
    \E r \in Reqs :
        /\ Markdown(r)
        /\ Terminated(r)
        /\ Len(attempts[r]) = 3
        /\ attempts[r][3] = Err(TargetClosed)
        /\ response[r].isError
        /\ Session(r).status = "closed"

-----------------------------------------------------------------------------
(* C20: under any interleaving of SSE connects and disconnects, `transport` *)
(* is not null while the client that connected last is still connected:    *)
(* the disconnect of an earlier client does not clear it.                  *)
C20_TransportFollowsLatestClient ==
    latest # 0 /\ alive[latest] => transport # 0

-----------------------------------------------------------------------------
(* C21: while `transport` is null, before any client has connected or      *)
(* after a close listener has cleared it, a POST /messages is answered     *)
(* 400 { error: "No session" } and changes nothing else: no tool call      *)
(* starts in any slot and no browser is launched by it.                    *)
C21_NoSessionStartsNothing ==
    [][transport = 0 =>
          /\ \A r \in Reqs : pc[r] = "idle" => pc'[r] = "idle" /\ call'[r] = NoCall
          /\ served' = served
          /\ post' # post =>
                /\ post' = "400 No session"
                /\ calls' = calls
                /\ Len(browsers') = Len(browsers)
                /\ transport' = 0
      ]_vars

\* a POST has been answered 400 and the transport is null, a client having
\* connected and closed: no call was served and no browser launched
C21_Witness ==
    /\ post = "400 No session"
    /\ transport = 0
    /\ latest # 0
    /\ \A c \in Clients : ~alive[c] /\ conn[c] = "closed"
    /\ served = 0
    /\ browsers = <<>>
    /\ \A r \in Reqs : pc[r] = "idle"

=============================================================================
